---- MODULE Spec2Model ----
(***************************************************************************)
(* Production cost estimator: the comparable-title similarity engine       *)
(* (similarity/matching.py), the inflation normalizer                      *)
(* (estimator/inflation.py) and the recency-weighted budget aggregation of *)
(* the Cost Estimator page.                                                *)
(*                                                                         *)
(* Representation.                                                         *)
(*  - Scores are Python floats built from 50 and the products              *)
(*    bonus*0.3, bonus*0.4, penalty*0.4, penalty*0.3; every one of them is *)
(*    a whole number of tenths, and the model holds a score as that number *)
(*    of tenths (50 is 500, 3.6 is 36).  Recency multipliers are held in   *)
(*    tenths too (2.0 is 20), CPI indices in tenths (26.0 is 260).         *)
(*  - A string the code only compares or looks up (a genre, a country, an  *)
(*    attribute label) is a TLA+ string.  A string the code takes apart is *)
(*    a sequence: a scale label is a sequence of tokens in which " (" is   *)
(*    the separator split() looks for, and a release date is a sequence of *)
(*    one-character strings.  Python's None inside such a field is the     *)
(*    sequence None.                                                       *)
(*  - A runtime is a tagged tuple: <<"none">>, <<"int", n>> or             *)
(*    <<"str", s>> (a non-numeric string).                                 *)
(***************************************************************************)
EXTENDS Integers, Sequences, FiniteSets, TLC

VARIABLES
  clock,         \* the year datetime.now().year returns
  pc,            \* which operation ran last
  user_attrs,    \* the user's attribute mapping
  title,         \* the title record handed to compute_similarity
  result,        \* [score, reasons] returned by compute_similarity
  titles,        \* the corpus handed to find_comparable_titles
  limit,         \* its limit argument
  max_years,     \* its max_years argument
  current_year,  \* the year find_comparable_titles read
  scored,        \* its list before the sort
  comparables,   \* its return value
  weighted_data, \* the aggregation's rows
  estimate,      \* the aggregation's low / base / high
  amount,        \* adjust_for_inflation: the amount
  from_year,     \* adjust_for_inflation: from_year
  to_year,       \* adjust_for_inflation: to_year
  adjusted,      \* adjust_for_inflation(amount, from_year, to_year)
  back,          \* adjust_for_inflation(adjusted, to_year, from_year)
  adjust_inflation, \* the sidebar toggle "Adjust for inflation"
  release_year,  \* get_recency_multiplier: its year argument
  multiplier,    \* get_recency_multiplier(release_year), in tenths
  increments     \* compute_similarity: what each section added to score and
                 \* reasons, in order, then the recency bonus

vars == <<clock, pc, user_attrs, title, result, titles, limit, max_years,
          current_year, scored, comparables, weighted_data, estimate,
          amount, from_year, to_year, adjusted, back, adjust_inflation,
          release_year, multiplier, increments>>

---------------------------------------------------------------------------
(* Python values *)

None == <<"#None">>

\* Python truthiness of a string or list field: None and the empty value
\* are false.
Truthy(v) == v # None /\ v # <<>>

Min(a, b) == IF a <= b THEN a ELSE b
Max(a, b) == IF a >= b THEN a ELSE b
Abs(a) == IF a >= 0 THEN a ELSE 0 - a

\* list.index(v): the first position of v (1-based here), 0 when the code
\* raises ValueError.
IndexOf(seq, v) ==
  IF \E k \in 1..Len(seq) : seq[k] = v
  THEN CHOOSE k \in 1..Len(seq) : seq[k] = v /\ \A j \in 1..(k - 1) : seq[j] # v
  ELSE 0

Range(seq) == {seq[k] : k \in 1..Len(seq)}

\* s[:n]
Prefix(s, n) == SubSeq(s, 1, Min(n, Len(s)))

---------------------------------------------------------------------------
(* The attribute taxonomy *)

GENRE_MAP(user_genre) ==
  CASE user_genre = "Action/Adventure" -> <<"Action", "Adventure">>
    [] user_genre = "Drama"            -> <<"Drama">>
    [] user_genre = "Comedy"           -> <<"Comedy">>
    [] user_genre = "Horror/Thriller"  -> <<"Horror", "Thriller">>
    [] user_genre = "Sci-Fi/Fantasy"   -> <<"Science Fiction", "Fantasy">>
    [] OTHER                           -> <<>>

SCALE_TIERS ==
  << <<"Blockbuster">>, <<"Major Studio">>, <<"Mid-Budget">>, <<"Indie">>, <<"Micro">> >>

ADJACENCY ==
  [vfx        |-> <<"Heavy", "Moderate", "Light", "Practical Only">>,
   action     |-> <<"High", "Moderate", "Light", "Dialogue-Driven">>,
   period     |-> <<"Futuristic", "Contemporary", "Recent Past (1980-2010)",
                    "Period (1900-1980)", "Historical (pre-1900)">>,
   star_power |-> <<"A-List", "B-List", "Rising Stars", "Ensemble/Unknown">>]

EuropeNonUK ==
  {"France", "Germany", "Spain", "Italy", "Belgium", "Netherlands", "Sweden",
   "Norway", "Denmark", "Finland", "Ireland", "Austria", "Switzerland", "Poland",
   "Czech Republic", "Hungary", "Romania", "Portugal", "Greece"}

COUNTRY_MAP(user_country) ==
  CASE user_country = "USA (Hollywood)"  -> {"United States of America"}
    [] user_country = "UK"               -> {"United Kingdom"}
    [] user_country = "Canada/Australia" -> {"Canada", "Australia"}
    [] user_country = "Europe (non-UK)"  -> EuropeNonUK
    [] OTHER                             -> {}

CountryBuckets == {"USA (Hollywood)", "UK", "Canada/Australia", "Europe (non-UK)", "Asia/Other"}

\* The tiers in declaration order, each with its half-open interval.
RUNTIME_TIERS ==
  << [tier |-> "Short",    low |-> 0,   high |-> 90],
     [tier |-> "Standard", low |-> 90,  high |-> 120],
     [tier |-> "Long",     low |-> 120, high |-> 150],
     [tier |-> "Epic",     low |-> 150, high |-> 999] >>

\* (bonus, penalty) per dimension, in tenths of a point.
weights ==
  [genre      |-> [bonus |-> 120, penalty |-> 0 - 100],
   scale      |-> [bonus |-> 100, penalty |-> 0 - 80],
   vfx        |-> [bonus |-> 60,  penalty |-> 0 - 50],
   action     |-> [bonus |-> 60,  penalty |-> 0 - 50],
   period     |-> [bonus |-> 60,  penalty |-> 0 - 50],
   star_power |-> [bonus |-> 40,  penalty |-> 0 - 30],
   country    |-> [bonus |-> 40,  penalty |-> 0 - 30],
   runtime    |-> [bonus |-> 40,  penalty |-> 0 - 30]]

\* 0.3 * x taken as nothing.
Times03Zero(x) == 0

\* x * 0.3 and x * 0.4 for x a number of tenths that the product keeps whole.
Times03(x) == (x * 3) \div 10
Times04(x) == (x * 4) \div 10

---------------------------------------------------------------------------
(* String operations the code applies *)

\* label.split(" (")[0]: the tokens before the first " (" separator.
SplitTier(label) ==
  LET k == IndexOf(label, " (")
  IN  IF k = 0 THEN label ELSE SubSeq(label, 1, k - 1)

Digits == <<"0", "1", "2", "3", "4", "5", "6", "7", "8", "9">>
IsDigit(c) == IndexOf(Digits, c) # 0
DigitVal(c) == IndexOf(Digits, c) - 1

\* str.strip() of the spaces int() ignores.
RECURSIVE LStrip(_)
LStrip(s) == IF s # <<>> /\ Head(s) = " " THEN LStrip(Tail(s)) ELSE s
RECURSIVE RStrip(_)
RStrip(s) ==
  IF s # <<>> /\ s[Len(s)] = " " THEN RStrip(SubSeq(s, 1, Len(s) - 1)) ELSE s

\* The digits of an int() literal body: digits, with single underscores
\* allowed between two digits.
IntBodyOk(s) ==
  /\ s # <<>>
  /\ \A k \in 1..Len(s) :
       \/ IsDigit(s[k])
       \/ s[k] = "_" /\ k > 1 /\ k < Len(s) /\ IsDigit(s[k - 1]) /\ IsDigit(s[k + 1])

RECURSIVE IntBodyVal(_, _)
IntBodyVal(s, acc) ==
  IF s = <<>> THEN acc
  ELSE IF Head(s) = "_" THEN IntBodyVal(Tail(s), acc)
  ELSE IntBodyVal(Tail(s), acc * 10 + DigitVal(Head(s)))

\* int(s) for a string s: [ok |-> FALSE] is ValueError.
PyInt(s) ==
  LET t    == RStrip(LStrip(s))
      sign == IF t # <<>> /\ Head(t) \in {"+", "-"} THEN Head(t) ELSE ""
      body == IF sign = "" THEN t ELSE Tail(t)
  IN  IF IntBodyOk(body)
      THEN [ok |-> TRUE,
            val |-> IF sign = "-" THEN 0 - IntBodyVal(body, 0) ELSE IntBodyVal(body, 0)]
      ELSE [ok |-> FALSE, val |-> 0]

\* str.isdigit(): non-empty and every character a digit.
IsDigitStr(s) == s # <<>> /\ \A k \in 1..Len(s) : IsDigit(s[k])

---------------------------------------------------------------------------
(* similarity/matching.py: the per-dimension matchers *)

matches_genre(user_genre, title_genres) ==
  IF ~Truthy(title_genres) THEN FALSE
  ELSE \E k \in 1..Len(title_genres) : title_genres[k] \in Range(GENRE_MAP(user_genre))

\* match_scale counting tiers two apart as adjacent.
MatchScaleWithinTwo(user_scale, title_scale) ==
  IF ~Truthy(title_scale) THEN 0
  ELSE LET title_tier == SplitTier(title_scale)
           user_tier  == IF Truthy(user_scale) THEN SplitTier(user_scale) ELSE <<>>
           user_idx   == IndexOf(SCALE_TIERS, user_tier)
           title_idx  == IndexOf(SCALE_TIERS, title_tier)
       IN  IF title_tier = user_tier THEN 100
           ELSE IF user_idx # 0 /\ title_idx # 0 /\ Abs(user_idx - title_idx) <= 2 THEN 50
           ELSE 0

\* 100 for the same tier, 50 for an adjacent tier, 0 otherwise.
match_scale(user_scale, title_scale) ==
  IF ~Truthy(title_scale) THEN 0
  ELSE LET title_tier == SplitTier(title_scale)
           user_tier  == IF Truthy(user_scale) THEN SplitTier(user_scale) ELSE <<>>
           user_idx   == IndexOf(SCALE_TIERS, user_tier)
           title_idx  == IndexOf(SCALE_TIERS, title_tier)
       IN  IF title_tier = user_tier THEN 100
           ELSE IF user_idx # 0 /\ title_idx # 0 /\ Abs(user_idx - title_idx) = 1 THEN 50
           ELSE 0

\* get_distance_score scoring two steps apart like one step apart.
GetDistanceScoreTwoNear(attr, val1, val2) ==
  IF val1 = val2 THEN 10
  ELSE IF attr \notin DOMAIN ADJACENCY THEN 0
  ELSE LET order == ADJACENCY[attr]
           idx1  == IndexOf(order, val1)
           idx2  == IndexOf(order, val2)
       IN  IF idx1 = 0 \/ idx2 = 0 THEN 0
           ELSE IF Abs(idx1 - idx2) = 1 THEN 6
           ELSE IF Abs(idx1 - idx2) = 2 THEN 6
           ELSE 0

\* In tenths: 10 for equal values, 6 one step apart, 3 two steps apart, 0
\* otherwise.
get_distance_score(attr, val1, val2) ==
  IF val1 = val2 THEN 10
  ELSE IF attr \notin DOMAIN ADJACENCY THEN 0
  ELSE LET order == ADJACENCY[attr]
           idx1  == IndexOf(order, val1)
           idx2  == IndexOf(order, val2)
       IN  IF idx1 = 0 \/ idx2 = 0 THEN 0
           ELSE IF Abs(idx1 - idx2) = 1 THEN 6
           ELSE IF Abs(idx1 - idx2) = 2 THEN 3
           ELSE 0

english_speaking == {"United States of America", "United Kingdom", "Canada", "Australia"}

\* In tenths: 10, 5, 3 or 0.
match_country(user_country, title_countries) ==
  IF ~Truthy(title_countries) THEN 0
  ELSE LET expected == COUNTRY_MAP(user_country)
           western  == UNION {COUNTRY_MAP(key) : key \in CountryBuckets \ {"Asia/Other"}}
       IN  IF user_country = "Asia/Other"
           THEN (IF title_countries[1] \notin western THEN 10 ELSE 0)
           ELSE IF title_countries[1] \in expected THEN 10
           ELSE IF Range(title_countries) \cap expected # {} THEN 5
           ELSE IF /\ expected # {}
                   /\ expected \cap english_speaking # {}
                   /\ Range(title_countries) \cap english_speaking # {}
                THEN 3
           ELSE 0

\* RuntimeTier with the upper end of each interval included.
RuntimeTierClosed(runtime_min) ==
  LET hits == {k \in 1..Len(RUNTIME_TIERS) :
                 RUNTIME_TIERS[k].low <= runtime_min /\ runtime_min <= RUNTIME_TIERS[k].high}
  IN  IF hits = {} THEN ""
      ELSE RUNTIME_TIERS[CHOOSE k \in hits : \A j \in hits : k <= j].tier

\* The first tier of RUNTIME_TIERS whose interval holds the runtime, "" when
\* none does.
RuntimeTier(runtime_min) ==
  LET hits == {k \in 1..Len(RUNTIME_TIERS) :
                 RUNTIME_TIERS[k].low <= runtime_min /\ runtime_min < RUNTIME_TIERS[k].high}
  IN  IF hits = {} THEN ""
      ELSE RUNTIME_TIERS[CHOOSE k \in hits : \A j \in hits : k <= j].tier

tier_order == <<"Short", "Standard", "Long", "Epic">>

\* In tenths: 10 for the same tier, 5 for an adjacent tier, 0 otherwise.
\* A <<"str", s>> runtime is a string int() rejects.
match_runtime(user_runtime, title_runtime) ==
  IF title_runtime[1] = "none" \/ user_runtime = "" THEN 0
  ELSE IF title_runtime[1] = "str" THEN 0
  ELSE IF title_runtime[2] = 0 THEN 0
  ELSE LET title_tier == RuntimeTier(title_runtime[2])
           user_idx   == IndexOf(tier_order, user_runtime)
           title_idx  == IndexOf(tier_order, title_tier)
       IN  IF title_tier = "" THEN 0
           ELSE IF user_runtime = title_tier THEN 10
           ELSE IF user_idx # 0 /\ title_idx # 0 /\ Abs(user_idx - title_idx) = 1 THEN 5
           ELSE 0

---------------------------------------------------------------------------
(* similarity/matching.py: compute_similarity, section by section.  Each   *)
(* section yields what it adds to score (tenths) and what it appends to    *)
(* reasons.                                                                *)

Step(d, r) == [delta |-> d, reasons |-> r]

GenreRelated(user_genre, title_genres) ==
  LET has(gs) == \E k \in 1..Len(title_genres) : title_genres[k] \in gs
  IN  \/ user_genre = "Action/Adventure" /\ has({"Thriller", "Science Fiction"})
      \/ user_genre = "Drama" /\ has({"Romance", "Crime"})
      \/ user_genre = "Horror/Thriller" /\ has({"Mystery", "Crime"})
      \/ user_genre = "Sci-Fi/Fantasy" /\ has({"Adventure", "Action"})

\* GenreSection with the no-data penalty for a title without genres.
GenreSectionNoData(user, t) ==
  LET user_genre   == user.genre
      title_genres == t.genres
  IN  IF matches_genre(user_genre, title_genres)
      THEN Step(weights.genre.bonus, << <<"Genre: ", title_genres[1]>> >>)
      ELSE IF Truthy(title_genres)
      THEN (IF GenreRelated(user_genre, title_genres)
            THEN Step(Times03(weights.genre.bonus), << <<"Genre: ~", title_genres[1]>> >>)
            ELSE Step(weights.genre.penalty, <<>>))
      ELSE Step(Times03(weights.genre.penalty), <<>>)

GenreSection(user, t) ==
  LET user_genre   == user.genre
      title_genres == t.genres
  IN  IF matches_genre(user_genre, title_genres)
      THEN Step(weights.genre.bonus, << <<"Genre: ", title_genres[1]>> >>)
      ELSE IF Truthy(title_genres)
      THEN (IF GenreRelated(user_genre, title_genres)
            THEN Step(Times03(weights.genre.bonus), << <<"Genre: ~", title_genres[1]>> >>)
            ELSE Step(weights.genre.penalty, <<>>))
      ELSE Step(weights.genre.penalty, <<>>)

ScaleSection(user, t) ==
  LET scale_score   == match_scale(user.scale, t.computed_scale)
      scale_display == SplitTier(t.computed_scale)
  IN  IF scale_score = 100
      THEN Step(weights.scale.bonus, << <<"Scale: ">> \o scale_display >>)
      ELSE IF scale_score = 50
      THEN Step(Times03(weights.scale.bonus), << <<"Scale: ~">> \o scale_display >>)
      ELSE Step(weights.scale.penalty, <<>>)

attr_map ==
  << [attr |-> "vfx",        title_key |-> "computed_vfx",        display |-> "Vfx: "],
     [attr |-> "action",     title_key |-> "computed_action",     display |-> "Action: "],
     [attr |-> "period",     title_key |-> "computed_period",     display |-> "Period: "],
     [attr |-> "star_power", title_key |-> "computed_star_power", display |-> "Star Power: "] >>

\* DistanceSection with the exact and the one-step branches exchanged.
DistanceSectionSwapped(m, user, t) ==
  LET user_val  == user[m.attr]
      title_val == t[m.title_key]
      dist      == get_distance_score(m.attr, user_val, title_val)
      w         == weights[m.attr]
  IN  IF user_val # "" /\ title_val # ""
      THEN (IF dist = 10 THEN Step(Times04(w.bonus), << <<m.display, title_val>> >>)
            ELSE IF dist >= 6
            THEN Step(w.bonus, << <<m.display, "~", title_val>> >>)
            ELSE IF dist >= 3 THEN Step(Times04(w.penalty), <<>>)
            ELSE Step(w.penalty, <<>>))
      ELSE Step(Times03(w.penalty), <<>>)

DistanceSection(m, user, t) ==
  LET user_val  == user[m.attr]
      title_val == t[m.title_key]
      dist      == get_distance_score(m.attr, user_val, title_val)
      w         == weights[m.attr]
  IN  IF user_val # "" /\ title_val # ""
      THEN (IF dist = 10 THEN Step(w.bonus, << <<m.display, title_val>> >>)
            ELSE IF dist >= 6
            THEN Step(Times04(w.bonus), << <<m.display, "~", title_val>> >>)
            ELSE IF dist >= 3 THEN Step(Times04(w.penalty), <<>>)
            ELSE Step(w.penalty, <<>>))
      ELSE Step(Times03(w.penalty), <<>>)

\* CountrySection with the partial bonus kept for a score of 0.5 only.
CountrySectionHalfOnly(user, t) ==
  LET user_country    == user.country
      title_countries == t.production_countries
      country_score   == match_country(user_country, title_countries)
  IN  IF user_country = "" THEN Step(0, <<>>)
      ELSE IF country_score = 10
      THEN Step(weights.country.bonus,
                IF Truthy(title_countries)
                THEN << <<"Country: ", title_countries[1]>> >> ELSE <<>>)
      ELSE IF country_score >= 5 THEN Step(Times03(weights.country.bonus), <<>>)
      ELSE Step(weights.country.penalty, <<>>)

CountrySection(user, t) ==
  LET user_country    == user.country
      title_countries == t.production_countries
      country_score   == match_country(user_country, title_countries)
  IN  IF user_country = "" THEN Step(0, <<>>)
      ELSE IF country_score = 10
      THEN Step(weights.country.bonus,
                IF Truthy(title_countries)
                THEN << <<"Country: ", title_countries[1]>> >> ELSE <<>>)
      ELSE IF country_score >= 3 THEN Step(Times03(weights.country.bonus), <<>>)
      ELSE Step(weights.country.penalty, <<>>)

RuntimeSection(user, t) ==
  LET user_runtime  == user.runtime
      runtime_score == match_runtime(user_runtime, t.runtime)
  IN  IF user_runtime = "" THEN Step(0, <<>>)
      ELSE IF runtime_score = 10
      THEN Step(weights.runtime.bonus, << <<"Runtime: ", t.runtime[2], "min">> >>)
      ELSE IF runtime_score >= 5 THEN Step(Times03(weights.runtime.bonus), <<>>)
      ELSE Step(weights.runtime.penalty, <<>>)

\* The recency bonus withheld from a title dated after the current year.
RecencyBonusPastOnly(t, now) ==
  LET release_date == t.release_date
      year         == PyInt(Prefix(release_date, 4))
      years_old    == now - year.val
  IN  IF Truthy(release_date) /\ Len(release_date) >= 4 /\ year.ok
      THEN (IF years_old < 0 THEN 0
            ELSE IF years_old <= 1 THEN 40
            ELSE IF years_old <= 2 THEN 20
            ELSE IF years_old <= 3 THEN 10
            ELSE 0)
      ELSE 0

\* The recency bonus with every threshold one year later.
RecencyBonusShifted(t, now) ==
  LET release_date == t.release_date
      year         == PyInt(Prefix(release_date, 4))
      years_old    == now - year.val
  IN  IF Truthy(release_date) /\ Len(release_date) >= 4 /\ year.ok
      THEN (IF years_old <= 2 THEN 40
            ELSE IF years_old <= 3 THEN 20
            ELSE IF years_old <= 4 THEN 10
            ELSE 0)
      ELSE 0

\* The recency bonus, reading the clock (now) as the code does.
RecencyBonus(t, now) ==
  LET release_date == t.release_date
      year         == PyInt(Prefix(release_date, 4))
      years_old    == now - year.val
  IN  IF Truthy(release_date) /\ Len(release_date) >= 4 /\ year.ok
      THEN (IF years_old <= 1 THEN 40
            ELSE IF years_old <= 2 THEN 20
            ELSE IF years_old <= 3 THEN 10
            ELSE 0)
      ELSE 0

\* The sections with the country section evaluated first.
SectionsCountryFirst(user, t) ==
  << CountrySection(user, t), GenreSection(user, t), ScaleSection(user, t) >>
  \o [k \in 1..Len(attr_map) |-> DistanceSection(attr_map[k], user, t)]
  \o << RuntimeSection(user, t) >>

Sections(user, t) ==
  << GenreSection(user, t), ScaleSection(user, t) >>
  \o [k \in 1..Len(attr_map) |-> DistanceSection(attr_map[k], user, t)]
  \o << CountrySection(user, t), RuntimeSection(user, t) >>

RECURSIVE SumDelta(_)
SumDelta(steps) == IF steps = <<>> THEN 0 ELSE Head(steps).delta + SumDelta(Tail(steps))

RECURSIVE CatReasons(_)
CatReasons(steps) ==
  IF steps = <<>> THEN <<>> ELSE Head(steps).reasons \o CatReasons(Tail(steps))

\* The score before the clamp, started from 0 in place of the baseline.
RawScoreNoBaseline(user, t, now) == SumDelta(Sections(user, t)) + RecencyBonus(t, now)

\* The score before the clamp: the baseline 50, the eight sections, the
\* recency bonus.
RawScore(user, t, now) == 500 + SumDelta(Sections(user, t)) + RecencyBonus(t, now)

\* What the call adds to score and reasons, step by step: the eight
\* sections, then the recency bonus (which appends no reason).
Increments(user, t, now) == Sections(user, t) \o << Step(RecencyBonus(t, now), <<>>) >>

\* Clamp without its upper bound.
ClampLowOnly(score) == Max(0, score)

\* max(0, min(100, score))
Clamp(score) == Max(0, Min(1000, score))

compute_similarity(user, t, now) ==
  [score   |-> Clamp(RawScore(user, t, now)),
   reasons |-> CatReasons(Sections(user, t))]

---------------------------------------------------------------------------
(* similarity/matching.py: the comparable selector *)

\* The gate with the scorer's soft scale match in place of tier equality.
FilterByScaleSoft(user_scale, title_scale) == match_scale(user_scale, title_scale) > 0

filter_by_scale(user_scale, title_scale) ==
  IF ~Truthy(title_scale) THEN FALSE
  ELSE LET user_tier  == IF Truthy(user_scale) THEN SplitTier(user_scale) ELSE <<>>
           title_tier == SplitTier(title_scale)
       IN  user_tier = title_tier

get_title_year(t) ==
  LET release_date == t.release_date
      year         == PyInt(Prefix(release_date, 4))
  IN  IF Truthy(release_date) /\ Len(release_date) >= 4 /\ year.ok THEN year.val ELSE 0

\* The window with its oldest year left out.
InWindowExclusive(title_year, min_year) == title_year > min_year

\* HARD FILTER 1: the title is skipped when this is false.
InWindow(title_year, min_year) == ~(title_year < min_year)

\* The loop of find_comparable_titles: the entries appended to scored for
\* titles[1..n], in corpus order.  pos is the corpus position of the dict
\* the entry's "title" refers to (the entry holds the dict itself, not a
\* copy).
RECURSIVE ScoredUpTo(_, _, _, _, _)
ScoredUpTo(user, corpus, n, min_year, now) ==
  IF n = 0 THEN <<>>
  ELSE LET t    == corpus[n]
           rest == ScoredUpTo(user, corpus, n - 1, min_year, now)
           sim  == compute_similarity(user, t, now)
       IN  IF ~InWindow(get_title_year(t), min_year) THEN rest
           ELSE IF ~filter_by_scale(user.scale, t.computed_scale) THEN rest
           ELSE IF sim.score > 0
           THEN Append(rest, [title |-> t, score |-> sim.score,
                              reasons |-> sim.reasons, pos |-> n])
           ELSE rest

\* The insertion that puts e ahead of the entries of equal score.
InsertDescBeforeTies(sorted, e) ==
  LET k == Cardinality({j \in 1..Len(sorted) : sorted[j].score > e.score})
  IN  SubSeq(sorted, 1, k) \o <<e>> \o SubSeq(sorted, k + 1, Len(sorted))

\* One insertion of the stable descending sort: e goes behind every entry
\* whose score is at least its own.
InsertDesc(sorted, e) ==
  LET k == Cardinality({j \in 1..Len(sorted) : sorted[j].score >= e.score})
  IN  SubSeq(sorted, 1, k) \o <<e>> \o SubSeq(sorted, k + 1, Len(sorted))

\* scored.sort(key=score, reverse=True): list.sort is stable, and with
\* reverse=True entries of equal score keep their order.
RECURSIVE SortDesc(_)
SortDesc(entries) ==
  IF entries = <<>> THEN <<>>
  ELSE InsertDesc(SortDesc(SubSeq(entries, 1, Len(entries) - 1)), entries[Len(entries)])

\* The slice that keeps one entry too many.
SliceOneMore(entries, n) == SubSeq(entries, 1, Min(n + 1, Len(entries)))

\* entries[:n], for n of either sign.
Slice(entries, n) ==
  IF n >= 0 THEN SubSeq(entries, 1, Min(n, Len(entries)))
  ELSE SubSeq(entries, 1, Max(0, Len(entries) + n))

find_comparable_titles(user, corpus, lim, window, now) ==
  LET min_year == now - window
  IN  Slice(SortDesc(ScoredUpTo(user, corpus, Len(corpus), min_year, now)), lim)

---------------------------------------------------------------------------
(* estimator/inflation.py *)

\* CPI_DATA in tenths of an index point.
CPI_DATA ==
  [y \in 1980..2026 |->
     << 260, 287, 305, 315, 328, 340, 346, 359, 374, 392,
        413, 430, 443, 456, 468, 481, 495, 507, 515, 526,
        544, 560, 569, 582, 597, 617, 637, 655, 681, 678,
        689, 711, 726, 736, 748, 749, 758, 775, 794, 808,
        818, 857, 926, 965, 1000, 1025, 1050 >>[y - 1979]]

\* A lookup that falls back on the nearest year of the table.
CpiGetNearest(year) == CPI_DATA[Max(1980, Min(2026, year))]

\* CPI_DATA.get(year): 0 stands for the None of a missing year.
CpiGet(year) == IF year \in DOMAIN CPI_DATA THEN CPI_DATA[year] ELSE 0

\* Floor division in place of int().
FloorDiv(a, b) == a \div b

\* int(x) of the quotient a / b: truncation toward zero.
TruncDiv(a, b) == IF a >= 0 THEN a \div b ELSE 0 - ((0 - a) \div b)

\* int(amount * (to_cpi / from_cpi)) in double precision.  The quotient
\* to_cpi / from_cpi and the product are each rounded to a double, so the
\* product differs from the exact amount * to_cpi / from_cpi by a few units
\* in the last place.  When the exact value is not whole it lies at least
\* 1/1050 from a whole number and the truncation is the exact one.  When
\* the exact value is a whole number q, the double is q or just beside it:
\* int() gives q, or the whole number next to q toward zero.  Equal indices
\* give the multiplier 1.0 and the exact amount.
IntOfProduct(amt, to_cpi, from_cpi) ==
  LET q == TruncDiv(amt * to_cpi, from_cpi)
  IN  IF to_cpi = from_cpi THEN {amt}
      ELSE IF (amt * to_cpi) % from_cpi = 0 /\ q # 0
      THEN {q, IF q > 0 THEN q - 1 ELSE q + 1}
      ELSE {q}

\* The multiplier taken upside down: from_cpi / to_cpi.
AdjustForInflationInverted(amt, fy, ty) ==
  LET from_cpi == CpiGet(fy)
      to_cpi   == CpiGet(ty)
  IN  IF amt = 0 THEN {amt}
      ELSE IF from_cpi = 0 \/ to_cpi = 0 THEN {amt}
      ELSE IntOfProduct(amt, from_cpi, to_cpi)

\* The values adjust_for_inflation(amount, from_year, to_year) can return.
adjust_for_inflation(amt, fy, ty) ==
  LET from_cpi == CpiGet(fy)
      to_cpi   == CpiGet(ty)
  IN  IF amt = 0 THEN {amt}
      ELSE IF from_cpi = 0 \/ to_cpi = 0 THEN {amt}
      ELSE IntOfProduct(amt, to_cpi, from_cpi)

---------------------------------------------------------------------------
(* pages/2_Cost_Estimator.py: the recency weighter and the aggregation *)

\* The steps for 2 and 3 years exchanged.
RecencyMultiplierSwapped(year, now) ==
  LET years_old == now - year
  IN  IF years_old <= 1 THEN 20
      ELSE IF years_old <= 2 THEN 14
      ELSE IF years_old <= 3 THEN 17
      ELSE IF years_old <= 4 THEN 11
      ELSE IF years_old <= 5 THEN 9
      ELSE 7

\* The Methodology table the page shows, by age in years ("0-1 years" to
\* "6 years"), in tenths.
MethodologyTable ==
  [age \in 0..6 |->
     CASE age <= 1 -> 20
       [] age = 2  -> 17
       [] age = 3  -> 14
       [] age = 4  -> 11
       [] age = 5  -> 9
       [] age = 6  -> 7]

\* In tenths: 2.0 is 20.
get_recency_multiplier(year, now) ==
  LET years_old == now - year
  IN  IF years_old <= 1 THEN 20
      ELSE IF years_old <= 2 THEN 17
      ELSE IF years_old <= 3 THEN 14
      ELSE IF years_old <= 4 THEN 11
      ELSE IF years_old <= 5 THEN 9
      ELSE 7

\* The page passes no to_year: adjust_for_inflation's default.
TargetYear == 2024

\* The test that lets every comparable through.
HasBudgetAlways(c) == TRUE

\* c["title"].get("budget_raw") is truthy: a missing, None or 0 budget is not.
HasBudget(c) == c.title.budget_raw # 0

\* The row with the similarity alone as its weight.
RowUnweighted(c, year, b, now) ==
  [title           |-> c.title.title,
   year            |-> year,
   budget          |-> b,
   original_budget |-> c.title.budget_raw,
   similarity      |-> c.score,
   recency         |-> get_recency_multiplier(year, now),
   weight          |-> c.score * 10]

\* The row the loop appends for comparable c with normalized budget b.
\* weight is similarity * recency, in hundredths.
Row(c, year, b, now) ==
  [title           |-> c.title.title,
   year            |-> year,
   budget          |-> b,
   original_budget |-> c.title.budget_raw,
   similarity      |-> c.score,
   recency         |-> get_recency_multiplier(year, now),
   weight          |-> c.score * get_recency_multiplier(year, now)]

\* The lists the loop over comps[1..n] can leave in weighted_data (one for
\* each value adjust_for_inflation can return).
RECURSIVE WeightedRows(_, _, _)
WeightedRows(comps, n, now) ==
  IF n = 0 THEN {<<>>}
  ELSE LET c        == comps[n]
           prev     == WeightedRows(comps, n - 1, now)
           year_str == Prefix(c.title.release_date, 4)
           year     == PyInt(year_str).val
       IN  IF ~HasBudget(c) THEN prev
           ELSE IF ~IsDigitStr(year_str) THEN prev
           ELSE {Append(w, Row(c, year, b, now)) :
                   w \in prev,
                   b \in adjust_for_inflation(c.title.budget_raw, year, TargetYear)}

\* c["title"].get("release_date", "")[:4] raises TypeError when the record
\* holds None for release_date.
SliceRaises(comps) ==
  \E k \in 1..Len(comps) : HasBudget(comps[k]) /\ comps[k].title.release_date = None

RECURSIVE SumWeight(_)
SumWeight(rows) == IF rows = <<>> THEN 0 ELSE Head(rows).weight + SumWeight(Tail(rows))

RECURSIVE SumWeightedBudget(_)
SumWeightedBudget(rows) ==
  IF rows = <<>> THEN 0
  ELSE Head(rows).weight * Head(rows).budget + SumWeightedBudget(Tail(rows))

\* d["contribution"] = (d["weight"] / total_weight) * d["budget"], held as
\* the fraction num / den.
WithContribution(rows) ==
  [k \in 1..Len(rows) |->
     [title |-> rows[k].title, year |-> rows[k].year, budget |-> rows[k].budget,
      original_budget |-> rows[k].original_budget, similarity |-> rows[k].similarity,
      recency |-> rows[k].recency, weight |-> rows[k].weight,
      contribution |-> [num |-> rows[k].weight * rows[k].budget, den |-> SumWeight(rows)]]]

\* avg_budget is a sum of doubles, each (weight / total_weight) * budget
\* rounded twice.  With one row the quotient is 1.0 and avg_budget is the
\* budget itself; with more rows the sum can land beside the exact value,
\* by far less than any difference between two exact values of the model.
\* rounding is the side it lands on: -1 below, 0 exact, 1 above.
\* Two rows of equal similarity and recency have equal weights: each quotient
\* is 0.5 and the sum is exact as well.
Roundings(rows) ==
  IF Len(rows) <= 1 THEN {0}
  ELSE IF /\ Len(rows) = 2
          /\ rows[1].similarity = rows[2].similarity
          /\ rows[1].recency = rows[2].recency
  THEN {0}
  ELSE {0 - 1, 0, 1}

NoEstimate == [kind |-> "none", low |-> 0, high |-> 0, num |-> 0, den |-> 1, rounding |-> 0]

\* The outcome of the block under "if weighted_data:": low_budget,
\* high_budget and avg_budget = num / den (+ rounding).
Estimate(rows, r) ==
  IF Len(rows) = 0
  THEN [kind |-> "no_budget_data", low |-> 0, high |-> 0, num |-> 0, den |-> 1, rounding |-> 0]
  ELSE LET budgets == {rows[k].budget : k \in 1..Len(rows)}
       IN  [kind     |-> "range",
            low      |-> CHOOSE b \in budgets : \A x \in budgets : b <= x,
            high     |-> CHOOSE b \in budgets : \A x \in budgets : b >= x,
            num      |-> SumWeightedBudget(rows),
            den      |-> SumWeight(rows),
            rounding |-> r]

\* avg_budget >= x and avg_budget <= x for a whole number x.
BaseGe(e, x) == e.num > x * e.den \/ (e.num = x * e.den /\ e.rounding >= 0)
BaseLe(e, x) == e.num < x * e.den \/ (e.num = x * e.den /\ e.rounding <= 0)

---------------------------------------------------------------------------
(* Inputs *)

ClockYears == {2026, 2027}

\* "YYYY-05-01" for the four characters given.
Date(a, b, c, d) == <<a, b, c, d, "-", "0", "5", "-", "0", "1">>

Label(tier, range) == <<tier, " (", range>>
Blockbuster == Label("Blockbuster", "$100M+)")
MajorStudio == Label("Major Studio", "$50-100M)")
MidBudget   == Label("Mid-Budget", "$20-50M)")
Indie       == Label("Indie", "$5-20M)")
Micro       == Label("Micro", "<$5M)")

\* The page's default selections.
UserDefault ==
  [genre |-> "Drama", scale |-> MidBudget, vfx |-> "Light", action |-> "Light",
   period |-> "Contemporary", star_power |-> "Rising Stars",
   country |-> "USA (Hollywood)", runtime |-> "Standard"]

\* Only the two attributes that drive the hard filters.
UserGenreScale ==
  [genre |-> "Drama", scale |-> MidBudget, vfx |-> "", action |-> "",
   period |-> "", star_power |-> "", country |-> "", runtime |-> ""]

UserIndie == [UserGenreScale EXCEPT !.scale = Indie]
UserMicro == [UserGenreScale EXCEPT !.scale = Micro]

UserFar ==
  [genre |-> "Sci-Fi/Fantasy", scale |-> Blockbuster, vfx |-> "Practical Only",
   action |-> "Dialogue-Driven", period |-> "Futuristic", star_power |-> "A-List",
   country |-> "Asia/Other", runtime |-> "Epic"]

Mk(name, date, genres, scale, vfx, budget) ==
  [title |-> name, release_date |-> date, genres |-> genres, budget_raw |-> budget,
   computed_scale |-> scale, computed_vfx |-> vfx, computed_action |-> "Light",
   computed_period |-> "Contemporary", computed_star_power |-> "Rising Stars",
   production_countries |-> <<"United States of America">>, runtime |-> <<"int", 100>>]

\* The title records a corpus is drawn from.
Catalogue ==
  { Mk("A", Date("2", "0", "2", "2"), <<"Drama">>, MidBudget, "Light", 30),
    Mk("B", Date("2", "0", "2", "2"), <<"Drama">>, MidBudget, "Heavy", 30),
    Mk("C", Date("2", "0", "2", "6"), <<"Drama">>, MidBudget, "Light", 40),
    Mk("D", Date("2", "0", "2", "0"), <<"Crime">>, MidBudget, "Light", 0),
    Mk("E", Date("2", "0", "1", "9"), <<"Drama">>, MidBudget, "Light", 25),
    Mk("F", Date("2", "0", "2", "5"), <<"Drama">>, Blockbuster, "Light", 150),
    Mk("G", None, <<"Drama">>, MidBudget, "Light", 20),
    Mk("H", Date("2", "0", "2", "5"), <<"Drama">>, Indie, "Light", 10),
    Mk("N", Date("2", "0", "2", "5"), <<"Drama">>, <<>>, "Light", 12) }

MaxCorpus == 2
MaxLimit == 2

Corpora == UNION {[1..n -> Catalogue] : n \in 0..MaxCorpus}

Users == {UserDefault, UserGenreScale, UserIndie, UserMicro}

\* max_years: the default 6, a narrow window, and a window wider than the
\* current year.
DefaultMaxYears == 6
Windows == {1, DefaultMaxYears, 3000}

NoTitle == Mk("", <<>>, <<>>, <<>>, "", 0)
NoResult == [score |-> 0, reasons |-> <<>>]

---------------------------------------------------------------------------
(* The selector and the aggregation: one query of the page *)

Init ==
  /\ clock = 2026
  /\ pc = "idle"
  /\ user_attrs \in Users
  /\ titles \in Corpora
  /\ limit \in 0..MaxLimit
  /\ max_years \in Windows
  /\ title = NoTitle
  /\ result = NoResult
  /\ current_year = 0
  /\ scored = <<>>
  /\ comparables = <<>>
  /\ weighted_data = <<>>
  /\ estimate = NoEstimate
  /\ amount = 0 /\ from_year = 0 /\ to_year = 0 /\ adjusted = 0 /\ back = 0
  /\ adjust_inflation = TRUE /\ release_year = 0 /\ multiplier = 0
  /\ increments = <<>>

\* The year changes.
Tick ==
  /\ clock + 1 \in ClockYears
  /\ clock' = clock + 1
  /\ UNCHANGED <<pc, user_attrs, title, result, titles, limit, max_years,
                 current_year, scored, comparables, weighted_data, estimate,
                 amount, from_year, to_year, adjusted, back,
                 adjust_inflation, release_year, multiplier, increments>>

\* The call that leaves the corpus in reverse order.
FindComparableReversesCorpus ==
  /\ pc = "idle"
  /\ current_year' = clock
  /\ scored' = ScoredUpTo(user_attrs, titles, Len(titles), clock - max_years, clock)
  /\ comparables' = find_comparable_titles(user_attrs, titles, limit, max_years, clock)
  /\ titles' = [k \in 1..Len(titles) |-> titles[Len(titles) + 1 - k]]
  /\ pc' = "found"
  /\ UNCHANGED <<clock, user_attrs, title, result, limit, max_years,
                 weighted_data, estimate, amount, from_year, to_year, adjusted, back,
                 adjust_inflation, release_year, multiplier, increments>>

\* comparables = find_comparable_titles(user_attrs, titles, limit, max_years)
FindComparable ==
  /\ pc = "idle"
  /\ current_year' = clock
  /\ scored' = ScoredUpTo(user_attrs, titles, Len(titles), clock - max_years, clock)
  /\ comparables' = find_comparable_titles(user_attrs, titles, limit, max_years, clock)
  /\ pc' = "found"
  /\ UNCHANGED <<clock, user_attrs, title, result, titles, limit, max_years,
                 weighted_data, estimate, amount, from_year, to_year, adjusted, back,
                 adjust_inflation, release_year, multiplier, increments>>

\* The aggregation over a non-empty comparables list.
Aggregate ==
  /\ pc = "found"
  /\ comparables # <<>>
  /\ ~SliceRaises(comparables)
  /\ \E rows \in WeightedRows(comparables, Len(comparables), clock) :
       \E r \in Roundings(rows) :
         /\ weighted_data' = WithContribution(rows)
         /\ estimate' = Estimate(rows, r)
  /\ pc' = "estimated"
  /\ UNCHANGED <<clock, user_attrs, title, result, titles, limit, max_years,
                 current_year, scored, comparables, amount, from_year, to_year,
                 adjusted, back,
                 adjust_inflation, release_year, multiplier, increments>>

\* The aggregation's loop raises TypeError.
AggregateRaises ==
  /\ pc = "found"
  /\ comparables # <<>>
  /\ SliceRaises(comparables)
  /\ pc' = "raised"
  /\ UNCHANGED <<clock, user_attrs, title, result, titles, limit, max_years,
                 current_year, scored, comparables, weighted_data, estimate,
                 amount, from_year, to_year, adjusted, back,
                 adjust_inflation, release_year, multiplier, increments>>

Next == Tick \/ FindComparable \/ Aggregate \/ AggregateRaises

Spec == Init /\ [][Next]_vars

---------------------------------------------------------------------------
(* The scorer alone: compute_similarity on one user mapping and one title *)

ScoreUsers == {UserDefault, UserGenreScale, UserFar}

ScoreGenres    == {<<>>, <<"Drama">>, <<"Crime">>, <<"Action", "Science Fiction">>}
ScoreScales    == {<<>>, MidBudget, Indie, Blockbuster}
ScoreVfx       == {"", "Light", "Heavy"}
ScoreAction    == {"Light", "High"}
ScorePeriod    == {"Contemporary", "Historical (pre-1900)"}
ScoreStar      == {"Rising Stars", "Ensemble/Unknown"}
ScoreCountries == {<<>>, <<"United States of America">>,
                   <<"France", "United States of America">>, <<"Japan">>}
ScoreRuntimes  == {<<"none">>, <<"int", 100>>, <<"int", 125>>}
ScoreDates     == {Date("2", "0", "2", "6"), Date("2", "0", "2", "3"), <<"T", "B", "A">>}

ScoreTitles ==
  [title : {"T"}, release_date : ScoreDates, genres : ScoreGenres, budget_raw : {0},
   computed_scale : ScoreScales, computed_vfx : ScoreVfx, computed_action : ScoreAction,
   computed_period : ScorePeriod, computed_star_power : ScoreStar,
   production_countries : ScoreCountries, runtime : ScoreRuntimes]

ScoreInit ==
  /\ clock = 2026
  /\ pc = "start"
  /\ user_attrs \in ScoreUsers
  /\ title \in ScoreTitles
  /\ result = NoResult
  /\ titles = <<>> /\ limit = 0 /\ max_years = 0
  /\ current_year = 0
  /\ scored = <<>>
  /\ comparables = <<>>
  /\ weighted_data = <<>>
  /\ estimate = NoEstimate
  /\ amount = 0 /\ from_year = 0 /\ to_year = 0 /\ adjusted = 0 /\ back = 0
  /\ adjust_inflation = TRUE /\ release_year = 0 /\ multiplier = 0
  /\ increments = <<>>

\* result = compute_similarity(user_attrs, title); current_year is the year
\* the call read from the clock.
Score ==
  /\ pc \in {"start", "scored"}
  /\ result' = compute_similarity(user_attrs, title, clock)
  /\ increments' = Increments(user_attrs, title, clock)
  /\ current_year' = clock
  /\ pc' = "scored"
  /\ UNCHANGED <<clock, user_attrs, title, titles, limit, max_years, scored,
                 comparables, weighted_data, estimate, amount, from_year, to_year,
                 adjusted, back,
                 adjust_inflation, release_year, multiplier>>

ScoreNext == Score \/ Tick

SpecScore == ScoreInit /\ [][ScoreNext]_vars

---------------------------------------------------------------------------
(* The inflation normalizer alone: there and back *)

MaxAmount == 12

\* Every year of the table, one before it and one after it.
InflationYears == 1979..2027

InflationInit ==
  /\ clock = 2026
  /\ pc = "start"
  /\ amount \in (0 - MaxAmount)..MaxAmount
  /\ from_year \in InflationYears
  /\ to_year \in InflationYears
  /\ adjusted = 0 /\ back = 0
  /\ user_attrs = UserDefault
  /\ title = NoTitle
  /\ result = NoResult
  /\ titles = <<>> /\ limit = 0 /\ max_years = 0
  /\ current_year = 0
  /\ scored = <<>>
  /\ comparables = <<>>
  /\ weighted_data = <<>>
  /\ estimate = NoEstimate
  /\ adjust_inflation = TRUE /\ release_year = 0 /\ multiplier = 0
  /\ increments = <<>>

\* adjusted = adjust_for_inflation(amount, from_year, to_year)
Adjust ==
  /\ pc = "start"
  /\ adjusted' \in adjust_for_inflation(amount, from_year, to_year)
  /\ pc' = "adjusted"
  /\ UNCHANGED <<clock, user_attrs, title, result, titles, limit, max_years,
                 current_year, scored, comparables, weighted_data, estimate,
                 amount, from_year, to_year, back,
                 adjust_inflation, release_year, multiplier, increments>>

\* back = adjust_for_inflation(adjusted, to_year, from_year)
AdjustBack ==
  /\ pc = "adjusted"
  /\ back' \in adjust_for_inflation(adjusted, to_year, from_year)
  /\ pc' = "returned"
  /\ UNCHANGED <<clock, user_attrs, title, result, titles, limit, max_years,
                 current_year, scored, comparables, weighted_data, estimate,
                 amount, from_year, to_year, adjusted,
                 adjust_inflation, release_year, multiplier, increments>>

InflationNext == Adjust \/ AdjustBack

SpecInflation == InflationInit /\ [][InflationNext]_vars

---------------------------------------------------------------------------
(* The aggregation alone: the page's block over a comparables list *)

MaxComparables == 2

\* Comparables as find_comparable_titles returns them to the page: every
\* title's year is inside the default window.  Budgets are in millions.
AggYears == {Date("2", "0", "2", "0"), Date("2", "0", "2", "1"),
             Date("2", "0", "2", "5"), Date("2", "0", "2", "6")}
AggBudgets == {0 - 5, 0, 10, 40}
AggScores == {900}

AggComparables ==
  { [title   |-> Mk("T", d, <<"Drama">>, MidBudget, "Light", b),
     score   |-> sc,
     reasons |-> <<>>,
     pos     |-> 0] : d \in AggYears, b \in AggBudgets, sc \in AggScores }

AggregateInit ==
  /\ clock \in ClockYears
  /\ pc = "found"
  /\ adjust_inflation \in BOOLEAN
  /\ comparables \in UNION {[1..n -> AggComparables] : n \in 0..MaxComparables}
  /\ \A k \in 1..Len(comparables) :
       /\ InWindow(get_title_year(comparables[k].title), clock - DefaultMaxYears)
       /\ get_title_year(comparables[k].title) <= clock
  /\ current_year = clock
  /\ max_years = DefaultMaxYears
  /\ user_attrs = UserDefault
  /\ titles = <<>> /\ limit = 5
  /\ scored = <<>>
  /\ title = NoTitle
  /\ result = NoResult
  /\ weighted_data = <<>>
  /\ estimate = NoEstimate
  /\ amount = 0 /\ from_year = 0 /\ to_year = 0 /\ adjusted = 0 /\ back = 0
  /\ release_year = 0 /\ multiplier = 0
  /\ increments = <<>>

\* "else: st.info(No similar titles found ...)": nothing is aggregated.
NoComparables ==
  /\ pc = "found"
  /\ comparables = <<>>
  /\ pc' = "no_similar_titles"
  /\ UNCHANGED <<clock, user_attrs, title, result, titles, limit, max_years,
                 current_year, scored, comparables, weighted_data, estimate,
                 amount, from_year, to_year, adjusted, back,
                 adjust_inflation, release_year, multiplier, increments>>

AggregateNext == Aggregate \/ NoComparables

SpecAggregate == AggregateInit /\ [][AggregateNext]_vars

---------------------------------------------------------------------------
(* The recency weighter alone *)

\* Release years from well before the window to the year after the clock's.
RecencyYears == 1970..2028

RecencyInit ==
  /\ clock \in ClockYears
  /\ pc = "start"
  /\ release_year \in RecencyYears
  /\ multiplier = 0
  /\ increments = <<>>
  /\ adjust_inflation = TRUE
  /\ user_attrs = UserDefault
  /\ title = NoTitle
  /\ result = NoResult
  /\ titles = <<>> /\ limit = 0 /\ max_years = 0
  /\ current_year = 0
  /\ scored = <<>>
  /\ comparables = <<>>
  /\ weighted_data = <<>>
  /\ estimate = NoEstimate
  /\ amount = 0 /\ from_year = 0 /\ to_year = 0 /\ adjusted = 0 /\ back = 0

\* multiplier = get_recency_multiplier(release_year)
Weigh ==
  /\ pc = "start"
  /\ multiplier' = get_recency_multiplier(release_year, clock)
  /\ current_year' = clock
  /\ pc' = "weighed"
  /\ UNCHANGED <<clock, user_attrs, title, result, titles, limit, max_years,
                 scored, comparables, weighted_data, estimate,
                 amount, from_year, to_year, adjusted, back,
                 adjust_inflation, release_year, increments>>

RecencyNext == Weigh

SpecRecency == RecencyInit /\ [][RecencyNext]_vars

---------------------------------------------------------------------------
(* The scorer, one dimension at a time: a user and a title that agree on   *)
(* every dimension, with one dimension's two values replaced.              *)

DimTitle == Mk("T", Date("2", "0", "2", "6"), <<"Drama">>, MidBudget, "Light", 0)

\* The genre names of the catalogue, and lists of at most two of them.
RawGenres ==
  {"Action", "Adventure", "Animation", "Comedy", "Crime", "Documentary", "Drama",
   "Family", "Fantasy", "History", "Horror", "Music", "Mystery", "Romance",
   "Science Fiction", "TV Movie", "Thriller", "War", "Western"}
GenreOptions == {"Action/Adventure", "Drama", "Comedy", "Horror/Thriller", "Sci-Fi/Fantasy"}
GenreLists == {None, <<>>} \cup {<<g>> : g \in RawGenres}
                \cup {<<g, h>> : g \in RawGenres, h \in RawGenres}
GenreCases ==
  {<<[UserDefault EXCEPT !.genre = g], [DimTitle EXCEPT !.genres = gs]>> :
     g \in GenreOptions \cup {""}, gs \in GenreLists}

ScaleOptions == {Blockbuster, MajorStudio, MidBudget, Indie, Micro}
ScaleLabels == ScaleOptions \cup {None, <<>>, <<"Indie">>, Label("Unknown", "no budget)")}
ScaleCases ==
  {<<[UserDefault EXCEPT !.scale = a], [DimTitle EXCEPT !.computed_scale = b]>> :
     a \in ScaleOptions \cup {Label("Unknown", "no budget)")}, b \in ScaleLabels}

\* The values of one distance attribute: its order, a value outside the
\* order, and the missing value.
DistanceValues(attr) == Range(ADJACENCY[attr]) \cup {"Other", ""}
DistanceCases ==
  UNION {{<<[UserDefault EXCEPT ![attr_map[k].attr] = a],
            [DimTitle EXCEPT ![attr_map[k].title_key] = b]>> :
            a \in DistanceValues(attr_map[k].attr),
            b \in DistanceValues(attr_map[k].attr)} : k \in 1..Len(attr_map)}

DimCountries ==
  {"United States of America", "United Kingdom", "Canada", "Australia", "France", "Japan"}
CountryLists == {None, <<>>} \cup {<<c>> : c \in DimCountries}
                  \cup {<<c, d>> : c \in DimCountries, d \in DimCountries}
CountryCases ==
  {<<[UserDefault EXCEPT !.country = c], [DimTitle EXCEPT !.production_countries = cs]>> :
     c \in CountryBuckets \cup {""}, cs \in CountryLists}

\* Runtimes on both sides of every tier boundary, and the runtimes no tier
\* holds.
DimRuntimes ==
  {<<"none">>, <<"str", "N/A">>}
    \cup {<<"int", n>> : n \in {0 - 5, 0, 1, 89, 90, 119, 120, 149, 150, 998, 999, 1000}}
RuntimeCases ==
  {<<[UserDefault EXCEPT !.runtime = r], [DimTitle EXCEPT !.runtime = rt]>> :
     r \in Range(tier_order) \cup {""}, rt \in DimRuntimes}

\* Release dates from seven years before the clock to three years after it,
\* and the dates that carry no year.
DimDates ==
  {None, <<>>, <<"T", "B", "A">>, <<"2", "0", "2">>, <<"T", "B", "A", "!", "-", "0", "1">>}
    \cup {Date("2", "0", d[1], d[2]) :
            d \in {<<"1", "9">>, <<"2", "0">>, <<"2", "1">>, <<"2", "2">>, <<"2", "3">>,
                   <<"2", "4">>, <<"2", "5">>, <<"2", "6">>, <<"2", "7">>, <<"2", "8">>,
                   <<"2", "9">>}}
DateCases ==
  {<<u, [DimTitle EXCEPT !.release_date = d]>> : u \in {UserDefault, UserFar}, d \in DimDates}

DimensionCases ==
  GenreCases \cup ScaleCases \cup DistanceCases \cup CountryCases \cup RuntimeCases
    \cup DateCases

DimensionInit ==
  /\ clock = 2026
  /\ pc = "start"
  /\ \E c \in DimensionCases : user_attrs = c[1] /\ title = c[2]
  /\ result = NoResult
  /\ titles = <<>> /\ limit = 0 /\ max_years = 0
  /\ current_year = 0
  /\ scored = <<>>
  /\ comparables = <<>>
  /\ weighted_data = <<>>
  /\ estimate = NoEstimate
  /\ amount = 0 /\ from_year = 0 /\ to_year = 0 /\ adjusted = 0 /\ back = 0
  /\ adjust_inflation = TRUE /\ release_year = 0 /\ multiplier = 0
  /\ increments = <<>>

SpecDimension == DimensionInit /\ [][ScoreNext]_vars

---------------------------------------------------------------------------
(* One query of the page for each scale option, over titles of every tier, *)
(* some of them dated after the current year.                              *)

QueryCatalogue ==
  { Mk("P", Date("2", "0", "2", "8"), <<"Drama">>, MidBudget, "Light", 30),
    Mk("Q", Date("2", "0", "2", "7"), <<"Comedy">>, MidBudget, "Light", 20),
    Mk("R", Date("2", "0", "2", "4"), <<"Drama">>, Indie, "Light", 10),
    Mk("S", Date("2", "0", "2", "2"), <<"Crime">>, MajorStudio, "Light", 60),
    Mk("U", Date("2", "0", "2", "5"), <<"Comedy">>, Blockbuster, "Light", 150),
    Mk("V", Date("2", "0", "2", "3"), <<"Drama">>, Micro, "Light", 3),
    Mk("X", Date("2", "0", "2", "9"), <<"Comedy">>, Indie, "Light", 8) }

QueryCorpora == UNION {[1..n -> QueryCatalogue] : n \in 0..MaxCorpus}

\* Genre and scale chosen, nothing else: one user for each scale option.
QueryUsers == {[UserGenreScale EXCEPT !.scale = s] : s \in ScaleOptions}

QueryWindows == {0, 1, DefaultMaxYears}

QueryInit ==
  /\ clock = 2026
  /\ pc = "idle"
  /\ user_attrs \in QueryUsers
  /\ titles \in QueryCorpora
  /\ limit \in 1..MaxLimit
  /\ max_years \in QueryWindows
  /\ title = NoTitle
  /\ result = NoResult
  /\ current_year = 0
  /\ scored = <<>>
  /\ comparables = <<>>
  /\ weighted_data = <<>>
  /\ estimate = NoEstimate
  /\ amount = 0 /\ from_year = 0 /\ to_year = 0 /\ adjusted = 0 /\ back = 0
  /\ adjust_inflation = TRUE /\ release_year = 0 /\ multiplier = 0
  /\ increments = <<>>

QueryNext == Tick \/ FindComparable \/ Aggregate \/ NoComparables

SpecQuery == QueryInit /\ [][QueryNext]_vars

---------------------------------------------------------------------------
(* Properties of the scorer (SpecScore) *)

\* C1: for every user mapping and every title record, missing fields
\* included, the score compute_similarity returns lies in 0..100 (0..1000
\* tenths).
ScoreWithinBounds ==
  pc = "scored" => 0 <= result.score /\ result.score <= 1000

\* C1 witness: a scored title whose sum before the clamp exceeds 100.
ScoreClampedWitness ==
  /\ pc = "scored"
  /\ RawScore(user_attrs, title, current_year) > 1000
  /\ result.score = 1000

\* The dimensions the user specified, and an exact match on each.
Dimensions ==
  {"genre", "scale", "vfx", "action", "period", "star_power", "country", "runtime"}

TitleField(d) ==
  CASE d = "genre"      -> "genres"
    [] d = "scale"      -> "computed_scale"
    [] d = "vfx"        -> "computed_vfx"
    [] d = "action"     -> "computed_action"
    [] d = "period"     -> "computed_period"
    [] d = "star_power" -> "computed_star_power"
    [] d = "country"    -> "production_countries"
    [] d = "runtime"    -> "runtime"

Specified(user, d) == IF d = "scale" THEN Truthy(user.scale) ELSE user[d] # ""

\* The title's value v matches the user's choice exactly on dimension d.
ExactOn(d, user, v) ==
  CASE d = "genre"   -> \E k \in 1..Len(v) : v[k] \in Range(GENRE_MAP(user.genre))
    [] d = "scale"   -> v # <<>> /\ Head(v) = Head(user.scale)
    [] d = "country" ->
         /\ v # <<>>
         /\ IF user.country = "Asia/Other"
            THEN v[1] \notin ({"United States of America", "United Kingdom", "Canada",
                               "Australia"} \cup EuropeNonUK)
            ELSE v[1] \in COUNTRY_MAP(user.country)
    [] d = "runtime" ->
         /\ v[1] = "int"
         /\ \E k \in 1..Len(RUNTIME_TIERS) :
              /\ RUNTIME_TIERS[k].tier = user.runtime
              /\ RUNTIME_TIERS[k].low <= v[2] /\ v[2] < RUNTIME_TIERS[k].high
    [] OTHER         -> v = user[d]

\* The values a title can carry on dimension d.
Vocabulary(d) ==
  CASE d = "genre"   -> {<<g>> : g \in {"Action", "Adventure", "Drama", "Comedy", "Horror",
                                        "Thriller", "Science Fiction", "Fantasy",
                                        "Romance", "Crime", "Mystery"}}
    [] d = "scale"   -> {Blockbuster, MajorStudio, MidBudget, Indie, Micro}
    [] d = "country" -> {<<c>> : c \in {"United States of America", "United Kingdom",
                                        "Canada", "France", "Japan"}}
    [] d = "runtime" -> {<<"int", n>> : n \in {60, 100, 125, 160}}
    [] OTHER         -> Range(ADJACENCY[d])

\* What an all-exact title identical to t elsewhere can carry on d: t's own
\* value where the user did not specify d or t already matches, any exactly
\* matching value where t does not match.
ExactChoices(d, user, t) ==
  LET own == t[TitleField(d)]
  IN  IF ~Specified(user, d) \/ ExactOn(d, user, own) THEN {own}
      ELSE {v \in Vocabulary(d) : ExactOn(d, user, v)}

Completions(user, t) ==
  {[t EXCEPT !.genres = g, !.computed_scale = s, !.computed_vfx = v,
             !.computed_action = a, !.computed_period = p, !.computed_star_power = sp,
             !.production_countries = c, !.runtime = r] :
     g \in ExactChoices("genre", user, t), s \in ExactChoices("scale", user, t),
     v \in ExactChoices("vfx", user, t), a \in ExactChoices("action", user, t),
     p \in ExactChoices("period", user, t), sp \in ExactChoices("star_power", user, t),
     c \in ExactChoices("country", user, t), r \in ExactChoices("runtime", user, t)}

\* Released within one year of the year the scorer read.
ReleasedWithinOneYear(t, now) ==
  LET d == t.release_date
  IN  /\ Len(d) >= 4 /\ IsDigitStr(Prefix(d, 4))
      /\ now - PyInt(Prefix(d, 4)).val \in {0, 1}

\* C10: a title released within one year that matches every specified
\* dimension exactly scores at least as much as any title identical to it
\* except for having fewer exact matches; the scored title is the one with
\* fewer matches, and every all-exact title it can be compared with is
\* scored under the same user mapping and year.
ExactMatchSupremacy ==
  (pc = "scored" /\ ReleasedWithinOneYear(title, current_year)) =>
    \A full \in Completions(user_attrs, title) :
      full # title =>
        compute_similarity(user_attrs, full, current_year).score >= result.score

\* C10 witness: a recent scored title short of an exact match somewhere, and
\* an all-exact counterpart that scores strictly more.
ExactMatchSupremacyWitness ==
  /\ pc = "scored"
  /\ ReleasedWithinOneYear(title, current_year)
  /\ \E full \in Completions(user_attrs, title) :
       /\ full # title
       /\ compute_similarity(user_attrs, full, current_year).score > result.score

---------------------------------------------------------------------------
(* Properties of the selector and the aggregation (Spec) *)

Called == pc # "idle"

\* The corpus positions of the entries of a result list.
Positions(entries) == {entries[k].pos : k \in 1..Len(entries)}

\* The tier of a scale label: its text before the parenthetical range.
TierName(label) == Head(label)

\* The release year of a title whose date starts with four digits.
HasYear(t) == Len(t.release_date) >= 4 /\ IsDigitStr(Prefix(t.release_date, 4))
YearOf(t) ==
  LET d == t.release_date
  IN  1000 * DigitVal(d[1]) + 100 * DigitVal(d[2]) + 10 * DigitVal(d[3]) + DigitVal(d[4])

\* C2: no title of another scale tier than the user's, and no title without
\* a scale label, is in the output of find_comparable_titles.
ScaleGateHolds ==
  Called =>
    \A k \in 1..Len(comparables) :
      LET label == comparables[k].title.computed_scale
      IN  /\ label # <<>> /\ label # None
          /\ TierName(label) = TierName(user_attrs.scale)

\* C2 witness: the corpus holds a title of another tier or without a label,
\* and the output is not empty.
ScaleGateWitness ==
  /\ Called
  /\ comparables # <<>>
  /\ \E n \in 1..Len(titles) :
       \/ titles[n].computed_scale = <<>>
       \/ TierName(titles[n].computed_scale) # TierName(user_attrs.scale)

TopLimitHolds ==
  (Called /\ limit >= 0) =>
    /\ Len(comparables) = Min(limit, Len(scored))
    /\ \A k \in 1..(Len(comparables) - 1) :
         comparables[k].score >= comparables[k + 1].score
    /\ \A k \in 1..Len(comparables) : \E j \in 1..Len(scored) : scored[j] = comparables[k]
    /\ \A k, j \in 1..Len(comparables) : k # j => comparables[k].pos # comparables[j].pos
    /\ \A j \in 1..Len(scored) :
         scored[j].pos \notin Positions(comparables) =>
           \A k \in 1..Len(comparables) : scored[j].score <= comparables[k].score

\* C4 witness: more survivors than the limit, and an entry returned.
TopLimitWitness ==
  /\ Called
  /\ limit >= 1
  /\ Len(scored) > limit
  /\ Len(comparables) = limit

\* C5: results of equal score stand in corpus order, and where the limit
\* cuts through a group of equal scores the ones kept are the earliest of
\* the corpus.
TiesKeepCorpusOrder ==
  Called =>
    /\ \A k, j \in 1..Len(comparables) :
         (k < j /\ comparables[k].score = comparables[j].score)
           => comparables[k].pos < comparables[j].pos
    /\ \A k \in 1..Len(comparables) : \A j \in 1..Len(scored) :
         (scored[j].score = comparables[k].score /\ scored[j].pos < comparables[k].pos)
           => scored[j].pos \in Positions(comparables)

\* C5 witness: two different titles of equal score survive and the limit
\* keeps only one of them.
TiesCutWitness ==
  /\ Called
  /\ Len(comparables) = 1
  /\ \E j \in 1..Len(scored) :
       /\ scored[j].pos # comparables[1].pos
       /\ scored[j].score = comparables[1].score
       /\ scored[j].title # comparables[1].title

\* C6: whenever a comparable carries budget data, low <= base <= high.
BaseWithinRange ==
  estimate.kind = "range" =>
    BaseGe(estimate, estimate.low) /\ BaseLe(estimate, estimate.high)

---------------------------------------------------------------------------
(* Properties of the inflation normalizer (SpecInflation) *)

InTable(year) == year \in DOMAIN CPI_DATA

\* C7 as stated: for any two years of the table, adjusting there and back
\* gives the amount within 1.
RoundTripWithinOne ==
  (pc = "returned" /\ InTable(from_year) /\ InTable(to_year)) =>
    Abs(back - amount) <= 1

\* C7 amended: the round trip is within 1 when the target year's index is
\* not below the source year's.
RoundTripWithinOneUpward ==
  ( /\ pc = "returned" /\ InTable(from_year) /\ InTable(to_year)
    /\ CPI_DATA[from_year] <= CPI_DATA[to_year] ) =>
    Abs(back - amount) <= 1

\* C7 witness: an upward round trip between two different years that loses
\* exactly 1.
RoundTripLosesOneWitness ==
  /\ pc = "returned" /\ InTable(from_year) /\ InTable(to_year)
  /\ CPI_DATA[from_year] < CPI_DATA[to_year]
  /\ amount > 0
  /\ back = amount - 1

\* What remains of |amount| * to_cpi once |adjusted| * from_cpi is taken out.
Remainder ==
  Abs(amount) * CPI_DATA[to_year] - Abs(adjusted) * CPI_DATA[from_year]

\* C8 as stated: for a non-zero amount and two years of the table the result
\* is amount * index[to_year] / index[from_year] rounded to the nearest
\* integer.
RoundsToNearest ==
  (pc # "start" /\ InTable(from_year) /\ InTable(to_year) /\ amount # 0) =>
    /\ adjusted * amount >= 0
    /\ 2 * Abs(Remainder) <= CPI_DATA[from_year]

\* C8 amended: the result is the quotient cut toward zero: it has the
\* amount's sign or is 0, its magnitude never exceeds the exact quotient's
\* and falls short of it by less than 1, or by exactly 1 where the exact
\* quotient is a whole number and the two indices differ.
TruncatesTowardZero ==
  (pc # "start" /\ InTable(from_year) /\ InTable(to_year) /\ amount # 0) =>
    /\ adjusted * amount >= 0
    /\ 0 <= Remainder /\ Remainder <= CPI_DATA[from_year]
    /\ Remainder = CPI_DATA[from_year] => CPI_DATA[from_year] # CPI_DATA[to_year]

\* C8 witness: a result whose cut-off fraction is above one half.
TruncationWitness ==
  /\ pc # "start" /\ InTable(from_year) /\ InTable(to_year) /\ amount < 0
  /\ 2 * Remainder > CPI_DATA[from_year]
  /\ Remainder < CPI_DATA[from_year]

\* C9: when from_year or to_year has no entry in the table the amount comes
\* back unchanged.
MissingYearEchoesAmount ==
  (pc # "start" /\ (~InTable(from_year) \/ ~InTable(to_year))) => adjusted = amount

\* C9 witness: a non-zero amount adjusted from the year before the table to
\* a year of the table with another index than the table's first.
MissingYearWitness ==
  /\ pc # "start"
  /\ from_year = 1979 /\ to_year = 2024
  /\ amount # 0
  /\ adjusted = amount

---------------------------------------------------------------------------
(* Reproducibility of the scorer (SpecScore) *)

\* C11: two invocations of compute_similarity with equal user_attrs and
\* equal title return equal (score, reasons) pairs, also when the clock's
\* year has advanced between them.
ScorerIsFunctionOfArguments ==
  [][ (pc = "scored" /\ pc' = "scored" /\ user_attrs' = user_attrs /\ title' = title)
        => result' = result ]_vars

---------------------------------------------------------------------------
(* The two-attribute scenario (Spec) *)

\* The user chose only genre Drama and scale Mid-Budget; the corpus is one
\* Mid-Budget drama released in the year the call read; the limit lets one
\* result through.
ScenarioCase ==
  /\ Called
  /\ user_attrs = UserGenreScale
  /\ limit >= 1
  /\ Len(titles) = 1
  /\ titles[1].genres = <<"Drama">>
  /\ titles[1].computed_scale = MidBudget
  /\ HasYear(titles[1]) /\ YearOf(titles[1]) = current_year

HasReason(reasons, prefix) == \E k \in 1..Len(reasons) : Head(reasons[k]) = prefix

\* C12 as stated: in the scenario the title is returned with score
\* >= 50 + 12 + 10 + 4 = 76 and with a genre reason and a scale reason.
ScenarioScoreAtLeast76 ==
  ScenarioCase =>
    /\ Len(comparables) = 1
    /\ comparables[1].title = titles[1]
    /\ comparables[1].score >= 760
    /\ HasReason(comparables[1].reasons, "Genre: ")
    /\ HasReason(comparables[1].reasons, "Scale: ")

\* C12 amended: in the scenario the title is returned with score
\* 50 + 12 + 10 + 4 - 0.3 * (5 + 5 + 5 + 3) = 70.6, the four attributes the
\* user left out each taking the no-data penalty, and its reasons are the
\* genre line and the scale line.
ScenarioScoreIs706 ==
  ScenarioCase =>
    /\ Len(comparables) = 1
    /\ comparables[1].title = titles[1]
    /\ comparables[1].score = 706
    /\ comparables[1].reasons = << <<"Genre: ", "Drama">>, <<"Scale: ", "Mid-Budget">> >>

\* C12 witness: the scenario has run and returned its title.
ScenarioWitness ==
  /\ ScenarioCase
  /\ Len(comparables) = 1
  /\ comparables[1].title.title = "C"

---------------------------------------------------------------------------
(* Properties of the aggregation (SpecAggregate) *)

Aggregated == pc = "estimated"

\* avg_budget < x for a whole number x.
BaseLt(e, x) == e.num < x * e.den \/ (e.num = x * e.den /\ e.rounding < 0)

\* Two comparables of equal similarity 90: k released one year before the
\* clock's year with raw budget 10 (million), j six years before it with
\* raw budget 40 (million).
NewCheapOldDear(k, j) ==
  /\ Len(comparables) = 2
  /\ {k, j} = {1, 2}
  /\ comparables[k].score = 900 /\ comparables[j].score = 900
  /\ comparables[k].title.budget_raw = 10
  /\ comparables[j].title.budget_raw = 40
  /\ get_title_year(comparables[k].title) = clock - 1
  /\ get_title_year(comparables[j].title) = clock - 6

\* C13: for two comparables of equal similarity 90, one of raw budget
\* 10,000,000 released a year ago and one of raw budget 40,000,000 released
\* six years ago, the weighted base estimate is strictly below the
\* unweighted average 25,000,000.
RecencyPullsBaseDown ==
  (Aggregated /\ \E k, j \in 1..2 : NewCheapOldDear(k, j)) =>
    /\ estimate.kind = "range"
    /\ Len(weighted_data) = 2
    /\ BaseLt(estimate, 25)

\* C13 witness: the two comparables were aggregated, the older one first.
RecencyPullsBaseDownWitness ==
  /\ Aggregated
  /\ NewCheapOldDear(2, 1)
  /\ estimate.kind = "range"
  /\ estimate.rounding # 0

---------------------------------------------------------------------------
(* The reasons list (SpecScore) *)

\* The dimension a reason line belongs to, by its label: 1 Genre, 2 Scale,
\* 3 Vfx, 4 Action, 5 Period, 6 Star Power, 7 Country, 8 Runtime.
DimensionOf(reason) ==
  CASE Head(reason) \in {"Genre: ", "Genre: ~"} -> 1
    [] Head(reason) \in {"Scale: ", "Scale: ~"} -> 2
    [] Head(reason) = "Vfx: "        -> 3
    [] Head(reason) = "Action: "     -> 4
    [] Head(reason) = "Period: "     -> 5
    [] Head(reason) = "Star Power: " -> 6
    [] Head(reason) = "Country: "    -> 7
    [] Head(reason) = "Runtime: "    -> 8
    [] OTHER -> 0

\* Dimension d of the title is an exact match, or a near match of the kind
\* that is displayed, for the user.
Displayed(d, user, t) ==
  CASE d = 1 -> /\ Truthy(t.genres)
                /\ matches_genre(user.genre, t.genres) \/ GenreRelated(user.genre, t.genres)
    [] d = 2 -> match_scale(user.scale, t.computed_scale) \in {100, 50}
    [] d \in 3..6 ->
         LET m == attr_map[d - 2]
         IN  /\ user[m.attr] # "" /\ t[m.title_key] # ""
             /\ get_distance_score(m.attr, user[m.attr], t[m.title_key]) >= 6
    [] d = 7 -> /\ user.country # ""
                /\ match_country(user.country, t.production_countries) = 10
    [] d = 8 -> /\ user.runtime # ""
                /\ match_runtime(user.runtime, t.runtime) = 10

\* C14: the reasons compute_similarity returns are in the order Genre,
\* Scale, Vfx, Action, Period, Star Power, Country, Runtime, with at most
\* one reason per dimension, and a dimension has a reason only when it is an
\* exact match or a displayed near match.
ReasonsInDimensionOrder ==
  pc = "scored" =>
    LET rs == result.reasons
    IN  /\ \A k \in 1..Len(rs) :
             /\ DimensionOf(rs[k]) \in 1..8
             /\ Displayed(DimensionOf(rs[k]), user_attrs, title)
        /\ \A k \in 1..(Len(rs) - 1) : DimensionOf(rs[k]) < DimensionOf(rs[k + 1])

\* C14 witness: a title that gets a reason for each of the eight dimensions.
AllEightReasonsWitness ==
  /\ pc = "scored"
  /\ Len(result.reasons) = 8

---------------------------------------------------------------------------
(* Which comparables the aggregation counts (SpecAggregate) *)

\* C15: a comparable whose title has budget_raw <= 0 contributes no row to
\* the aggregation, so every row comes from a positive raw budget.
NonPositiveBudgetsExcluded ==
  Aggregated =>
    \A k \in 1..Len(weighted_data) : weighted_data[k].original_budget > 0

---------------------------------------------------------------------------
(* The outcome without budget data (Spec) *)

\* A comparable without usable budget data: no budget, or no year to
\* normalize it from.
Unusable(c) ==
  \/ c.title.budget_raw = 0
  \/ c.title.release_date = None
  \/ ~IsDigitStr(Prefix(c.title.release_date, 4))

\* The page's query: find_comparable_titles with its default window.
PageQuery == max_years = DefaultMaxYears

\* C16: when the page's comparables list is not empty and none of its
\* entries carries usable budget data, the aggregation ends, without
\* raising, in the "no budget data available" outcome: no row, no weighted
\* average, no division.
NoBudgetDataOutcome ==
  ( /\ PageQuery
    /\ pc \in {"estimated", "raised"}
    /\ comparables # <<>>
    /\ \A k \in 1..Len(comparables) : Unusable(comparables[k]) ) =>
    /\ pc = "estimated"
    /\ estimate.kind = "no_budget_data"
    /\ weighted_data = <<>>
    /\ estimate.num = 0 /\ estimate.den = 1

\* C16 witness: the page's query returned comparables, none of them with a
\* budget, and the aggregation has run.
NoBudgetDataWitness ==
  /\ PageQuery
  /\ pc = "estimated"
  /\ comparables # <<>>
  /\ \A k \in 1..Len(comparables) : comparables[k].title.budget_raw = 0
  /\ estimate.kind = "no_budget_data"

---------------------------------------------------------------------------
(* Titles without a release year (Spec) *)

\* The release date is there, has four characters or more, and its first
\* four parse as an integer.
YearParses(t) ==
  /\ t.release_date # None
  /\ Len(t.release_date) >= 4
  /\ PyInt(Prefix(t.release_date, 4)).ok

\* C17: for every max_years, a title whose release date is missing, shorter
\* than four characters or does not start with an integer year is not in
\* the output of find_comparable_titles.
UndatedTitlesExcluded ==
  Called => \A k \in 1..Len(comparables) : YearParses(comparables[k].title)

---------------------------------------------------------------------------
(* What a query leaves alone (Spec) *)

\* C18: no step changes the corpus or the user attribute mapping, and each
\* result find_comparable_titles returns holds the corpus record at its
\* position, as the corpus was before the call.
InputsNeverMutated ==
  [][ /\ titles' = titles
      /\ user_attrs' = user_attrs
      /\ (pc = "idle" /\ pc' = "found") =>
           \A k \in 1..Len(comparables') :
             /\ comparables'[k].pos \in 1..Len(titles)
             /\ comparables'[k].title = titles[comparables'[k].pos] ]_vars

\* C18 witness: a call over two different titles has returned the second.
SecondTitleReturnedWitness ==
  /\ pc = "found"
  /\ Len(titles) = 2
  /\ titles[1] # titles[2]
  /\ comparables # <<>>
  /\ comparables[1].pos = 2
  /\ comparables[1].title = titles[2]

---------------------------------------------------------------------------
(* The recency multiplier (SpecRecency) *)

\* The title's age in whole years at the call.
Age == current_year - release_year

\* C19: get_recency_multiplier is positive, does not increase with age, and
\* is 2.0 for age <= 1, 1.7 for 2, 1.4 for 3, 1.1 for 4, 0.9 for 5 and 0.7
\* for age >= 6, in agreement with the Methodology table for the ages the
\* table lists.
RecencyMultiplierMatchesTable ==
  pc = "weighed" =>
    /\ multiplier > 0
    /\ Age <= 1 => multiplier = 20
    /\ Age = 2 => multiplier = 17
    /\ Age = 3 => multiplier = 14
    /\ Age = 4 => multiplier = 11
    /\ Age = 5 => multiplier = 9
    /\ Age >= 6 => multiplier = 7
    /\ Age \in DOMAIN MethodologyTable => multiplier = MethodologyTable[Age]
    /\ \A older \in RecencyYears :
         older < release_year =>
           get_recency_multiplier(older, current_year) <= multiplier

\* C19 witness: a title older than the table's last row gets 0.7.
BeyondTableWitness ==
  /\ pc = "weighed"
  /\ Age = 8
  /\ multiplier = 7

---------------------------------------------------------------------------
(* The inflation toggle (SpecAggregate) *)

\* C20: with the toggle off, every row's budget, and so low, base and high,
\* is the raw budget; with the toggle on it is one of the values the
\* normalization to the target year can return.
ToggleControlsNormalization ==
  Aggregated =>
    \A k \in 1..Len(weighted_data) :
      LET row == weighted_data[k]
      IN  IF adjust_inflation
          THEN row.budget \in adjust_for_inflation(row.original_budget, row.year, TargetYear)
          ELSE row.budget = row.original_budget

---------------------------------------------------------------------------
(* The dimensions of compute_similarity, one at a time (SpecDimension) *)

Scored == pc = "scored"

\* The genres a title lists: none when the list is empty or missing.
Listed(genres) == IF genres = None THEN {} ELSE Range(genres)

\* C21: the genre dimension adds exactly +12 with the reason "Genre: <first
\* title genre>" when a title genre is in the user's bucket, +3.6 with the
\* reason "Genre: ~<first title genre>" when none is but a related-genre
\* rule fires, and -10 with no reason otherwise; a title without genres
\* takes the full -10.
GenreDimensionAmounts ==
  Scored =>
    LET listed == Listed(title.genres)
        bucket == Range(GENRE_MAP(user_attrs.genre))
    IN  /\ listed \cap bucket # {} =>
             increments[1] = Step(120, << <<"Genre: ", title.genres[1]>> >>)
        /\ listed \cap bucket = {} /\ listed # {}
             /\ GenreRelated(user_attrs.genre, title.genres) =>
             increments[1] = Step(36, << <<"Genre: ~", title.genres[1]>> >>)
        /\ listed \cap bucket = {} /\ listed # {}
             /\ ~GenreRelated(user_attrs.genre, title.genres) =>
             increments[1] = Step(0 - 100, <<>>)
        /\ listed = {} => increments[1] = Step(0 - 100, <<>>)

\* A title whose genre list is empty or missing has been scored and took
\* the full penalty.
GenreDimensionWitness ==
  /\ Scored
  /\ \/ title.genres = <<>>
     \/ title.genres = None
  /\ increments[1].delta = 0 - 100

\* C22: for each of the five genre buckets some raw genre outside the bucket
\* fires the related-genre rule: a title carrying only that genre takes the
\* 0.3x genre bonus and a "~" reason in place of the full penalty.
RelatedRuleForEveryBucket ==
  Scored /\ user_attrs.genre \in GenreOptions =>
    \E g \in RawGenres \ Range(GENRE_MAP(user_attrs.genre)) :
      Increments(user_attrs, [title EXCEPT !.genres = <<g>>], clock)[1]
        = Step(36, << <<"Genre: ~", g>> >>)

\* How many steps apart two values are in an attribute's adjacency order;
\* 99 when either value is not in the order.
StepsApart(attr, a, b) ==
  LET order == ADJACENCY[attr]
  IN  IF a \in Range(order) /\ b \in Range(order)
      THEN Abs(IndexOf(order, a) - IndexOf(order, b))
      ELSE 99

\* C23: each distance attribute with bonus b and penalty p adds b for equal
\* values, 0.4 b one step apart, 0.4 p two steps apart, p three or more
\* steps apart or with a value outside the order, and 0.3 p when either
\* value is missing; a reason is recorded in the first two cases only,
\* prefixed "~" in the second.
DistanceDimensionAmounts ==
  Scored =>
    \A k \in 1..Len(attr_map) :
      LET m == attr_map[k]
          a == user_attrs[m.attr]
          v == title[m.title_key]
          b == weights[m.attr].bonus
          p == weights[m.attr].penalty
          d == StepsApart(m.attr, a, v)
      IN  increments[2 + k] =
            IF a = "" \/ v = "" THEN Step((3 * p) \div 10, <<>>)
            ELSE IF a = v THEN Step(b, << <<m.display, v>> >>)
            ELSE IF d = 1 THEN Step((4 * b) \div 10, << <<m.display, "~", v>> >>)
            ELSE IF d = 2 THEN Step((4 * p) \div 10, <<>>)
            ELSE Step(p, <<>>)

\* A title two steps from the user's vfx value took 0.4 of the penalty.
DistanceDimensionWitness ==
  /\ Scored
  /\ user_attrs.vfx = "Heavy" /\ title.computed_vfx = "Light"
  /\ increments[3] = Step(0 - 20, <<>>)

\* The countries a title lists: none when the list is empty or missing.
ListedCountries(t) ==
  IF Truthy(t.production_countries) THEN Range(t.production_countries) ELSE {}

\* The title's first listed country earns the full bonus: it is in the
\* bucket's list or, for the bucket "Asia/Other", outside every other
\* bucket's list.
PrimaryInBucket(c, t) ==
  /\ ListedCountries(t) # {}
  /\ IF c = "Asia/Other"
     THEN \A key \in CountryBuckets \ {"Asia/Other"} :
            t.production_countries[1] \notin COUNTRY_MAP(key)
     ELSE t.production_countries[1] \in COUNTRY_MAP(c)

\* C24: with a country bucket specified the country dimension adds +4 when
\* the first listed country is in the bucket, +1.2 when it is not but some
\* listed country is, and -3 in every other case; with no country specified
\* it adds nothing and records nothing.
CountryDimensionAmounts ==
  Scored =>
    LET c == user_attrs.country
    IN  increments[7] =
          IF c = "" THEN Step(0, <<>>)
          ELSE IF PrimaryInBucket(c, title)
          THEN Step(40, << <<"Country: ", title.production_countries[1]>> >>)
          ELSE IF ListedCountries(title) \cap COUNTRY_MAP(c) # {} THEN Step(12, <<>>)
          ELSE Step(0 - 30, <<>>)

\* C24, amended: the 0.3x bonus is also added when no listed country is in
\* the bucket but the bucket holds an English-speaking country (United
\* States of America, United Kingdom, Canada, Australia) and the title lists
\* one.
CountryDimensionAmountsEnglish ==
  Scored =>
    LET c == user_attrs.country
        english == {"United States of America", "United Kingdom", "Canada", "Australia"}
    IN  increments[7] =
          IF c = "" THEN Step(0, <<>>)
          ELSE IF PrimaryInBucket(c, title)
          THEN Step(40, << <<"Country: ", title.production_countries[1]>> >>)
          ELSE IF ListedCountries(title) \cap COUNTRY_MAP(c) # {} THEN Step(12, <<>>)
          ELSE IF /\ COUNTRY_MAP(c) \cap english # {}
                  /\ ListedCountries(title) \cap english # {}
          THEN Step(12, <<>>)
          ELSE Step(0 - 30, <<>>)

\* A title made in the United Kingdom alone, scored for the bucket
\* "USA (Hollywood)", took the 0.3x bonus.
EnglishSpeakingWitness ==
  /\ Scored
  /\ user_attrs.country = "USA (Hollywood)"
  /\ title.production_countries = <<"United Kingdom">>
  /\ increments[7] = Step(12, <<>>)

\* The position (1..4) of the tier whose half-open interval holds n minutes
\* in Short [0,90), Standard [90,120), Long [120,150), Epic [150,999); 0 when
\* no interval does.
TierIndexOfMinutes(n) ==
  IF 0 <= n /\ n < 90 THEN 1
  ELSE IF 90 <= n /\ n < 120 THEN 2
  ELSE IF 120 <= n /\ n < 150 THEN 3
  ELSE IF 150 <= n /\ n < 999 THEN 4
  ELSE 0

\* C25: with a runtime tier specified, the title's runtime is mapped to one
\* tier by the half-open intervals (90 is Standard, 120 is Long, 150 is
\* Epic) and the runtime dimension adds +4 with the reason "Runtime: <n>min"
\* on the same tier, +1.2 with no reason on an adjacent tier and -3
\* otherwise, a missing, zero, non-numeric or out-of-table runtime included;
\* with no runtime specified it adds nothing and records nothing.
RuntimeDimensionAmounts ==
  Scored =>
    LET r  == user_attrs.runtime
        rt == title.runtime
        ui == IndexOf(<<"Short", "Standard", "Long", "Epic">>, r)
        ti == IF rt[1] = "int" /\ rt[2] # 0 THEN TierIndexOfMinutes(rt[2]) ELSE 0
    IN  increments[8] =
          IF r = "" THEN Step(0, <<>>)
          ELSE IF ti # 0 /\ ti = ui THEN Step(40, << <<"Runtime: ", rt[2], "min">> >>)
          ELSE IF ti # 0 /\ Abs(ti - ui) = 1 THEN Step(12, <<>>)
          ELSE Step(0 - 30, <<>>)

\* A 90-minute title scored for the tier Standard took the full bonus.
RuntimeBoundaryWitness ==
  /\ Scored
  /\ user_attrs.runtime = "Standard"
  /\ title.runtime = <<"int", 90>>
  /\ increments[8] = Step(40, << <<"Runtime: ", 90, "min">> >>)

\* The release year the scorer reads: the first four characters of a date
\* of at least four characters, when int() accepts them.
ScorerYear(date) ==
  IF Truthy(date) /\ Len(date) >= 4 THEN PyInt(SubSeq(date, 1, 4))
  ELSE [ok |-> FALSE, val |-> 0]

\* C26: the recency bonus is +4 for an age (current year minus release
\* year) of at most 1, +2 for age 2, +1 for age 3, and 0 for a greater age
\* or a missing or unparseable release year; it is added to the sum of the
\* eight dimensions before the clamp, whatever they contributed.
RecencyBonusAmounts ==
  Scored =>
    LET y     == ScorerYear(title.release_date)
        age   == current_year - y.val
        bonus == IF ~y.ok THEN 0
                 ELSE IF age <= 1 THEN 40
                 ELSE IF age = 2 THEN 20
                 ELSE IF age = 3 THEN 10
                 ELSE 0
        dims  == SumDelta(SubSeq(increments, 1, 8))
    IN  /\ increments[9] = Step(bonus, <<>>)
        /\ result.score = Max(0, Min(1000, 500 + dims + bonus))
        /\ result.reasons = CatReasons(SubSeq(increments, 1, 8))

\* A title three years old was scored against a user it matches on no
\* dimension and took +1.
RecencyBonusWitness ==
  /\ Scored
  /\ user_attrs = UserFar
  /\ ScorerYear(title.release_date).ok
  /\ current_year - ScorerYear(title.release_date).val = 3
  /\ increments[9].delta = 10

\* The five tiers in order, by name.
TierOrder == <<"Blockbuster", "Major Studio", "Mid-Budget", "Indie", "Micro">>

\* C27: the scale dimension adds +10 with the reason "Scale: <tier>" when
\* the user's and the title's tiers are equal, +3 with the reason
\* "Scale: ~<tier>" when their positions in the five-tier order differ by
\* one, and -8 with no reason otherwise (two or more apart, a tier outside
\* the order, no title scale); match_scale returns 100, 50 and 0 in the
\* three cases.
ScaleDimensionAmounts ==
  Scored =>
    LET missing == title.computed_scale = None \/ title.computed_scale = <<>>
        ut == TierName(user_attrs.scale)
        tt == IF missing THEN "" ELSE TierName(title.computed_scale)
        ui == IndexOf(TierOrder, ut)
        ti == IndexOf(TierOrder, tt)
        ms == match_scale(user_attrs.scale, title.computed_scale)
    IN  IF ~missing /\ ut = tt
        THEN increments[2] = Step(100, << <<"Scale: ", tt>> >>) /\ ms = 100
        ELSE IF ~missing /\ ui # 0 /\ ti # 0 /\ Abs(ui - ti) = 1
        THEN increments[2] = Step(30, << <<"Scale: ~", tt>> >>) /\ ms = 50
        ELSE increments[2] = Step(0 - 80, <<>>) /\ ms = 0

\* An Indie title scored for a Mid-Budget user took the near-match bonus.
ScaleNearWitness ==
  /\ Scored
  /\ user_attrs.scale = MidBudget /\ title.computed_scale = Indie
  /\ increments[2] = Step(30, << <<"Scale: ~", "Indie">> >>)

---------------------------------------------------------------------------
(* The floor of the score (SpecScore) *)

\* C28: the score before the clamp is never below 8, so the returned score
\* is positive: a title that passes both hard filters is never removed by
\* the test `score > 0` of find_comparable_titles, and the weight score x
\* recency multiplier of its row in the aggregation is positive.
ScoreFloorHolds ==
  Scored =>
    LET raw      == 500 + SumDelta(increments)
        min_year == current_year - DefaultMaxYears
        passes   == /\ ~(get_title_year(title) < min_year)
                    /\ title.computed_scale # <<>>
                    /\ TierName(title.computed_scale) = TierName(user_attrs.scale)
        kept     == ScoredUpTo(user_attrs, <<title>>, 1, min_year, current_year)
        row      == Row([title |-> title, score |-> result.score],
                        get_title_year(title), 1, current_year)
    IN  /\ raw >= 80
        /\ result.score = Max(0, Min(1000, raw))
        /\ result.score > 0
        /\ passes => Len(kept) = 1 /\ kept[1].score = result.score
        /\ row.weight > 0

\* A title that matches the user on no dimension and takes no recency
\* bonus was scored: every full penalty applied and the score is 8.
ScoreFloorWitness ==
  /\ Scored
  /\ 500 + SumDelta(increments) = 80
  /\ result.score = 80

---------------------------------------------------------------------------
(* Queries for every scale option (SpecQuery) *)

\* The positions in a reasons list of the reasons with the given prefixes.
ReasonsWith(reasons, prefixes) == {j \in 1..Len(reasons) : reasons[j][1] \in prefixes}

\* C29: every result of find_comparable_titles carries exactly one scale
\* reason, "Scale: <user tier>" without "~", first in its reasons or right
\* after a single genre reason; no result carries a "Scale: ~..." reason.
OneExactScaleReason ==
  Called =>
    \A k \in 1..Len(comparables) :
      LET rs == comparables[k].reasons
          at == ReasonsWith(rs, {"Scale: ", "Scale: ~"})
      IN  /\ ReasonsWith(rs, {"Scale: ~"}) = {}
          /\ Cardinality(at) = 1
          /\ \A j \in at :
               /\ rs[j] = <<"Scale: ", TierName(user_attrs.scale)>>
               /\ \/ j = 1
                  \/ j = 2 /\ ReasonsWith(rs, {"Genre: ", "Genre: ~"}) = {1}

\* Two results were returned, one whose scale reason comes first and one
\* whose scale reason follows a genre reason.
ScaleReasonPlacesWitness ==
  /\ Called
  /\ \E k \in 1..Len(comparables) : comparables[k].reasons[1][1] = "Scale: "
  /\ \E k \in 1..Len(comparables) :
       /\ comparables[k].reasons[1][1] = "Genre: "
       /\ comparables[k].reasons[2][1] = "Scale: "

\* C30: a title dated after the current year is treated as maximally
\* recent: whatever max_years >= 0 it passes the recency window (and is
\* scored when its tier is the user's), its score holds the full +4 recency
\* bonus, and its row in the aggregation has the recency multiplier 2.0.
FutureTitlesMaximallyRecent ==
  /\ Called =>
       \A k \in 1..Len(titles) :
         LET t == titles[k]
         IN  YearOf(t) > current_year
               /\ TierName(t.computed_scale) = TierName(user_attrs.scale) =>
               \E j \in 1..Len(scored) :
                 /\ scored[j].pos = k
                 /\ scored[j].score
                      = Max(0, Min(1000, 500 + SumDelta(Sections(user_attrs, t)) + 40))
  /\ pc = "estimated" =>
       \A j \in 1..Len(weighted_data) :
         weighted_data[j].year > clock =>
           /\ weighted_data[j].recency = 20
           /\ weighted_data[j].weight = weighted_data[j].similarity * 20

\* With max_years 0 a title dated after the current year was returned and
\* entered the aggregation with the multiplier 2.0.
FutureTitleWitness ==
  /\ pc = "estimated"
  /\ max_years = 0
  /\ \E j \in 1..Len(weighted_data) :
       weighted_data[j].year > clock /\ weighted_data[j].recency = 20
  /\ \E j \in 1..Len(comparables) :
       YearOf(comparables[j].title) > clock /\ comparables[j].score = 706

====
